---- MODULE Spec2Model ----
(***************************************************************************)
(* git-digest: incremental change detection over git remotes.              *)
(*                                                                         *)
(* The model covers the fetcher (commit and tag diffing), the state store  *)
(* (state.json, its accessors, its JSON encoding) and the two entry points *)
(* that wire them together (cli.main, mcp.server.get_git_updates).         *)
(*                                                                         *)
(* Python values are tagged records (PyNone, PyStr, PyList, PyDict);       *)
(* strings are tuples of one-character strings.  A commit id (hexsha) is a *)
(* tuple of hex digits; a commit time is an integer number of seconds UTC.  *)
(***************************************************************************)
EXTENDS Integers, Sequences, FiniteSets, TLC

VARIABLES
    hist,       \* url -> commits of the target ref, newest first (hexsha tuples)
    tags,       \* url -> the repository's tag listing, in the adapter's order
    remote_ok,  \* url -> whether clone / fetch of the remote succeeds
    file,       \* cache_dir/state.json: [exists, text]
    last        \* the most recent call and what it returned

vars == <<hist, tags, remote_ok, file, last>>

----------------------------------------------------------------------------
(* Bounds of the model.                                                    *)

MaxCommits == 2     \* longest history drawn for a repository
MaxN == 2           \* largest max_commits / max_tags drawn for a call
MaxTs == 3          \* commit times are 1..MaxTs
MaxTags == 2        \* most tags in a listing

Urls == {"u1", "u2"}
Sha == {<<"a", "a", "b">>, <<"a", "b", "b">>, <<"b", "a", "a">>}
TagNames == <<"v1", "v2", "v3">>

----------------------------------------------------------------------------
(* Python values.                                                          *)

PyNone == [t |-> "None"]
PyStr(s) == [t |-> "str", v |-> s]
PyList(l) == [t |-> "list", v |-> l]
PyDict(d) == [t |-> "dict", v |-> d]

PyInt(n) == [t |-> "int", v |-> n]

\* bool(x) for the values the program tests: None, "", 0 and empty containers are
\* falsy.
Truthy(x) ==
    CASE x.t = "None" -> FALSE
      [] x.t = "int" -> x.v # 0
      [] x.t = "str" -> x.v # <<>>
      [] x.t = "list" -> x.v # <<>>
      [] x.t = "dict" -> DOMAIN x.v # {}

Min(a, b) == IF a <= b THEN a ELSE b

\* seq[:n] for n >= 0
Take(seq, n) == SubSeq(seq, 1, Min(n, Len(seq)))

\* str.strip(), for text whose whitespace is the blank " "
RECURSIVE lstrip(_)
lstrip(s) == IF s # <<>> /\ s[1] = " " THEN lstrip(Tail(s)) ELSE s

RECURSIVE rstrip(_)
rstrip(s) == IF s # <<>> /\ s[Len(s)] = " " THEN rstrip(SubSeq(s, 1, Len(s) - 1)) ELSE s

strip(s) == rstrip(lstrip(s))

\* str.startswith
startswith(s, p) == Len(p) <= Len(s) /\ SubSeq(s, 1, Len(p)) = p

----------------------------------------------------------------------------
(* fetcher.py                                                              *)

ShortLen == 2       \* sha_short: the leading characters of a hexsha kept for display

\* A tag whose commit cannot be resolved (tag.commit raises) has ts = NoTs.
NoTs == 0

DateChars == <<"1", "2", "3", "4", "5", "6", "7", "8", "9">>

\* dt.strftime("%Y-%m-%d %H:%M:%S") of a UTC time
strftime(n) == <<"D", DateChars[n]>>

ParseError == -1

\* _parse_utc_iso: the time a date string denotes, ParseError for ValueError
parse_utc_iso(s) ==
    IF Len(s) = 2 /\ s[1] = "D" /\ \E n \in 1..Len(DateChars) : DateChars[n] = s[2]
    THEN CHOOSE n \in 1..Len(DateChars) : DateChars[n] = s[2]
    ELSE ParseError

\* _tag_commit_datetime_utc
tag_commit_datetime_utc(tag) == PyStr(strftime(tag.ts))

CommitInfo(hexsha) == [sha_short |-> Take(hexsha, ShortLen)]

TagInfo(tag) == [name |-> tag.name, date_iso |-> strftime(tag.ts)]

\* repo.iter_commits(target, max_count=n): git rev-list --max-count=n; a negative
\* count means no limit.
iter_commits(h, n) == IF n < 0 THEN h ELSE Take(h, n)

RECURSIVE commits_to_infos_from(_, _)
commits_to_infos_from(commits, i) ==
    IF i > Len(commits) THEN <<>>
    ELSE <<CommitInfo(commits[i])>> \o commits_to_infos_from(commits, i + 1)

\* _commits_to_infos: commits[:max_n], each as a CommitInfo
commits_to_infos(commits, max_n) == commits_to_infos_from(Take(commits, max_n), 1)

RECURSIVE commits_since_loop(_, _, _, _, _)
commits_since_loop(cs, i, new_commits, last_seen_sha, max_count) ==
    IF i > Len(cs) THEN new_commits
    ELSE IF cs[i] = last_seen_sha \/ startswith(cs[i], last_seen_sha) THEN new_commits
    ELSE LET nc == Append(new_commits, cs[i])
         IN  IF Len(nc) >= max_count THEN nc
             ELSE commits_since_loop(cs, i + 1, nc, last_seen_sha, max_count)

RECURSIVE commits_since_loop_exact(_, _, _, _, _)
commits_since_loop_exact(cs, i, new_commits, last_seen_sha, max_count) ==
    IF i > Len(cs) THEN new_commits
    ELSE IF cs[i] = last_seen_sha THEN new_commits
    ELSE LET nc == Append(new_commits, cs[i])
         IN  IF Len(nc) >= max_count THEN nc
             ELSE commits_since_loop_exact(cs, i + 1, nc, last_seen_sha, max_count)

\* Variant: the scan stops only at an id equal to last_seen_sha, not at one it abbreviates.
commits_since_sha_exact(h, last_seen_sha, max_count) ==
    commits_since_loop_exact(iter_commits(h, max_count * 2), 1, <<>>, last_seen_sha,
                             max_count)

\* Variant: the scan goes on past max_count commits, to the end of what git lists.
commits_since_sha_uncapped(h, last_seen_sha, max_count) ==
    commits_since_loop(iter_commits(h, max_count * 2), 1, <<>>, last_seen_sha,
                       max_count * 2 + 1)

\* the number of commits the loop of _commits_since_sha takes from the iterator
RECURSIVE commits_scanned(_, _, _, _, _)
commits_scanned(cs, i, n_new, last_seen_sha, max_count) ==
    IF i > Len(cs) THEN Len(cs)
    ELSE IF cs[i] = last_seen_sha \/ startswith(cs[i], last_seen_sha) THEN i
    ELSE IF n_new + 1 >= max_count THEN i
    ELSE commits_scanned(cs, i + 1, n_new + 1, last_seen_sha, max_count)

\* _commits_since_sha: commits from the target back to last_seen_sha (exclusive)
commits_since_sha(h, last_seen_sha, max_count) ==
    commits_since_loop(iter_commits(h, max_count * 2), 1, <<>>, last_seen_sha, max_count)

\* Variant: the tags sorted oldest first.
RECURSIVE sorted_asc(_)
sorted_asc(ts) ==
    IF ts = <<>> THEN <<>>
    ELSE LET rest == sorted_asc(Tail(ts))
             x == Head(ts)
             k == Cardinality({j \in 1..Len(rest) : rest[j].ts < x.ts})
         IN  SubSeq(rest, 1, k) \o <<x>> \o SubSeq(rest, k + 1, Len(rest))

\* sorted(repo.tags, key=committed_datetime, reverse=True): a stable sort, so tags
\* of one time keep the adapter's order.
RECURSIVE sorted_desc(_)
sorted_desc(ts) ==
    IF ts = <<>> THEN <<>>
    ELSE LET rest == sorted_desc(Tail(ts))
             x == Head(ts)
             k == Cardinality({j \in 1..Len(rest) : rest[j].ts > x.ts})
         IN  SubSeq(rest, 1, k) \o <<x>> \o SubSeq(rest, k + 1, Len(rest))

\* Variant: a tag dated exactly at the cutoff counts as new.
RECURSIVE tags_loop_nonstrict(_, _, _, _, _, _)
tags_loop_nonstrict(ts, i, result, newest_date_iso, max_tags, cutoff) ==
    IF i > Len(ts) THEN [result |-> result, newest |-> newest_date_iso]
    ELSE IF Len(result) >= max_tags /\ newest_date_iso # PyNone
         THEN [result |-> result, newest |-> newest_date_iso]
    ELSE LET tag_date_utc_str == tag_commit_datetime_utc(ts[i])
             seen == IF newest_date_iso = PyNone THEN tag_date_utc_str ELSE newest_date_iso
         IN  IF cutoff # ParseError /\ parse_utc_iso(tag_date_utc_str.v) < cutoff
             THEN tags_loop_nonstrict(ts, i + 1, result, seen, max_tags, cutoff)
             ELSE tags_loop_nonstrict(ts, i + 1, Append(result, TagInfo(ts[i])), seen,
                                      max_tags, cutoff)

RECURSIVE tags_loop(_, _, _, _, _, _)
tags_loop(ts, i, result, newest_date_iso, max_tags, cutoff) ==
    IF i > Len(ts) THEN [result |-> result, newest |-> newest_date_iso]
    ELSE IF Len(result) >= max_tags /\ newest_date_iso # PyNone
         THEN [result |-> result, newest |-> newest_date_iso]
    ELSE LET tag_date_utc_str == tag_commit_datetime_utc(ts[i])
             seen == IF newest_date_iso = PyNone THEN tag_date_utc_str ELSE newest_date_iso
         IN  IF cutoff # ParseError /\ parse_utc_iso(tag_date_utc_str.v) <= cutoff
             THEN tags_loop(ts, i + 1, result, seen, max_tags, cutoff)
             ELSE tags_loop(ts, i + 1, Append(result, TagInfo(ts[i])), seen, max_tags, cutoff)

\* _tags_to_infos: (tag_infos, newest_tag_date_iso).  cutoff is None (ParseError
\* here) when last_seen_newest_tag_date is falsy or does not parse.
tags_to_infos(listing, max_tags, last_seen_newest_tag_date) ==
    LET cutoff == IF Truthy(last_seen_newest_tag_date)
                  THEN parse_utc_iso(last_seen_newest_tag_date.v)
                  ELSE ParseError
    IN  IF \E j \in 1..Len(listing) : listing[j].ts = NoTs
        THEN [result |-> <<>>, newest |-> PyNone]
        ELSE LET sorted == sorted_desc(listing)
                 r == tags_loop(sorted, 1, <<>>, PyNone, max_tags, cutoff)
             IN  IF sorted # <<>>
                 THEN [result |-> r.result, newest |-> tag_commit_datetime_utc(sorted[1])]
                 ELSE r

MaxTagsDefault == 10    \* fetch_repo_summary always asks for max_tags=10

RepoSummary(url) ==
    [url |-> url, commits |-> <<>>, tags |-> <<>>, error |-> PyNone,
     since_last_run |-> FALSE, tags_since_last_run |-> FALSE,
     head_sha |-> PyNone, newest_tag_date |-> PyNone]

\* Variant: with no new commits the previous id is kept as the head.
summary_commits_stale(summary, h, config, last_seen_sha) ==
    IF Truthy(last_seen_sha)
    THEN LET new_commits == commits_since_sha(h, last_seen_sha.v, config.max_commits)
         IN  [summary EXCEPT
                !.since_last_run = TRUE,
                !.head_sha = IF new_commits # <<>> THEN PyStr(new_commits[1])
                             ELSE last_seen_sha,
                !.commits = commits_to_infos(new_commits, config.max_commits)]
    ELSE LET commits == iter_commits(h, config.max_commits)
         IN  [summary EXCEPT
                !.head_sha = IF commits # <<>> THEN PyStr(commits[1]) ELSE @,
                !.commits = commits_to_infos(commits, config.max_commits)]

\* The commit half of fetch_repo_summary (lines 261-280).
summary_commits(summary, h, config, last_seen_sha) ==
    IF Truthy(last_seen_sha)
    THEN LET new_commits == commits_since_sha(h, last_seen_sha.v, config.max_commits)
             head == iter_commits(h, 1)
         IN  [summary EXCEPT
                !.since_last_run = TRUE,
                !.head_sha = IF new_commits # <<>> THEN PyStr(new_commits[1])
                             ELSE IF head # <<>> THEN PyStr(head[1])
                             ELSE last_seen_sha,
                !.commits = commits_to_infos(new_commits, config.max_commits)]
    ELSE LET commits == iter_commits(h, config.max_commits)
         IN  [summary EXCEPT
                !.head_sha = IF commits # <<>> THEN PyStr(commits[1]) ELSE @,
                !.commits = commits_to_infos(commits, config.max_commits)]

\* Variant: the tag cutoff is used whether or not a previous commit id was given.
summary_tags_unguarded(summary, listing, config, last_seen_sha, last_seen_newest_tag_date) ==
    IF config.include_tags
    THEN LET tag_cutoff == last_seen_newest_tag_date
             r == tags_to_infos(listing, MaxTagsDefault, tag_cutoff)
         IN  [summary EXCEPT
                !.tags = r.result,
                !.newest_tag_date = r.newest,
                !.tags_since_last_run = (tag_cutoff # PyNone)]
    ELSE summary

\* The tag half of fetch_repo_summary (lines 281-287).
summary_tags(summary, listing, config, last_seen_sha, last_seen_newest_tag_date) ==
    IF config.include_tags
    THEN LET tag_cutoff == IF Truthy(last_seen_sha) THEN last_seen_newest_tag_date
                           ELSE PyNone
             r == tags_to_infos(listing, MaxTagsDefault, tag_cutoff)
         IN  [summary EXCEPT
                !.tags = r.result,
                !.newest_tag_date = r.newest,
                !.tags_since_last_run = (tag_cutoff # PyNone)]
    ELSE summary

\* fetch_repo_summary: a clone or fetch failure is caught and becomes summary.error.
fetch_repo_summary(config, last_seen_sha, last_seen_newest_tag_date) ==
    IF ~remote_ok[config.url]
    THEN [RepoSummary(config.url) EXCEPT !.error = PyStr(<<"E">>)]
    ELSE summary_tags(
             summary_commits(RepoSummary(config.url), hist[config.url], config,
                             last_seen_sha),
             tags[config.url], config, last_seen_sha, last_seen_newest_tag_date)

----------------------------------------------------------------------------
(* state.py: the JSON text of state.json is a sequence of tokens.           *)

LBrace == [p |-> "{"]
RBrace == [p |-> "}"]
LBracket == [p |-> "["]
RBracket == [p |-> "]"]
Colon == [p |-> ":"]
Comma == [p |-> ","]
Null == [p |-> "null"]
StrTok(s) == [s |-> s]
KeyTok(k) == [k |-> k]

\* bytes in the file that are not valid UTF-8
BadByte == [p |-> "xff"]

\* an exception leaving a call
Raised(exc) == [t |-> "raise", exc |-> exc]

\* path.read_text(encoding="utf-8"): the text, or UnicodeDecodeError
read_text(f) ==
    IF \E i \in 1..Len(f.text) : f.text[i] = BadByte
    THEN Raised("UnicodeDecodeError") ELSE [t |-> "text", v |-> f.text]

EmptyDict == [k \in {} |-> PyNone]

RECURSIVE SeqOfSet(_)
SeqOfSet(S) ==
    IF S = {} THEN <<>>
    ELSE LET x == CHOOSE y \in S : TRUE IN <<x>> \o SeqOfSet(S \ {x})

\* json.dumps of a value built from None, str, list and dict with string keys
RECURSIVE json_dumps(_)
RECURSIVE dumps_elements(_, _)
RECURSIVE dumps_members(_, _, _)
dumps_elements(l, i) ==
    IF i > Len(l) THEN <<>>
    ELSE (IF i > 1 THEN <<Comma>> ELSE <<>>) \o json_dumps(l[i]) \o dumps_elements(l, i + 1)

dumps_members(d, keys, i) ==
    IF i > Len(keys) THEN <<>>
    ELSE (IF i > 1 THEN <<Comma>> ELSE <<>>)
         \o <<KeyTok(keys[i]), Colon>> \o json_dumps(d[keys[i]])
         \o dumps_members(d, keys, i + 1)

json_dumps(x) ==
    CASE x.t = "None" -> <<Null>>
      [] x.t = "str" -> <<StrTok(x.v)>>
      [] x.t = "list" -> <<LBracket>> \o dumps_elements(x.v, 1) \o <<RBracket>>
      [] x.t = "dict" ->
            <<LBrace>> \o dumps_members(x.v, SeqOfSet(DOMAIN x.v), 1) \o <<RBrace>>

ParseFail == [ok |-> FALSE, val |-> PyNone, next |-> 0]

Tok(text, i) == IF i <= Len(text) THEN text[i] ELSE [p |-> "EOF"]

\* json.loads, by recursive descent: [ok, val, next]
RECURSIVE parse_value(_, _)
RECURSIVE parse_elements(_, _, _)
RECURSIVE parse_members(_, _, _)
parse_elements(text, i, acc) ==
    LET r == parse_value(text, i)
    IN  IF ~r.ok THEN ParseFail
        ELSE IF Tok(text, r.next) = Comma
             THEN parse_elements(text, r.next + 1, Append(acc, r.val))
        ELSE IF Tok(text, r.next) = RBracket
             THEN [ok |-> TRUE, val |-> PyList(Append(acc, r.val)), next |-> r.next + 1]
        ELSE ParseFail

parse_members(text, i, acc) ==
    IF ~("k" \in DOMAIN Tok(text, i) /\ Tok(text, i + 1) = Colon) THEN ParseFail
    ELSE LET key == Tok(text, i).k
             r == parse_value(text, i + 2)
             acc2 == [k \in DOMAIN acc \cup {key} |-> IF k = key THEN r.val ELSE acc[k]]
         IN  IF ~r.ok THEN ParseFail
             ELSE IF Tok(text, r.next) = Comma THEN parse_members(text, r.next + 1, acc2)
             ELSE IF Tok(text, r.next) = RBrace
                  THEN [ok |-> TRUE, val |-> PyDict(acc2), next |-> r.next + 1]
             ELSE ParseFail

parse_value(text, i) ==
    LET tok == Tok(text, i)
    IN  IF tok = Null THEN [ok |-> TRUE, val |-> PyNone, next |-> i + 1]
        ELSE IF "s" \in DOMAIN tok THEN [ok |-> TRUE, val |-> PyStr(tok.s), next |-> i + 1]
        ELSE IF tok = LBracket
             THEN IF Tok(text, i + 1) = RBracket
                  THEN [ok |-> TRUE, val |-> PyList(<<>>), next |-> i + 2]
                  ELSE parse_elements(text, i + 1, <<>>)
        ELSE IF tok = LBrace
             THEN IF Tok(text, i + 1) = RBrace
                  THEN [ok |-> TRUE, val |-> PyDict(EmptyDict), next |-> i + 2]
                  ELSE parse_members(text, i + 1, EmptyDict)
        ELSE ParseFail

\* json.loads: the whole text must be one value (else JSONDecodeError)
json_loads(text) ==
    LET r == parse_value(text, 1)
    IN  IF r.ok /\ r.next = Len(text) + 1 THEN r ELSE ParseFail

NoFile == [exists |-> FALSE, text |-> <<>>]

\* Variant: a loader that keeps only the bare-string entries.
load_state_strs_only(f) ==
    IF ~f.exists THEN PyDict(EmptyDict)
    ELSE LET r == json_loads(f.text)
         IN  IF r.ok /\ r.val.t = "dict"
             THEN PyDict([k \in {x \in DOMAIN r.val.v : r.val.v[x].t = "str"} |-> r.val.v[k]])
             ELSE PyDict(EmptyDict)

\* load_state: {} for a missing file, unparseable text, or a value that is no dict.
\* Only json.JSONDecodeError and OSError are caught: the UnicodeDecodeError of
\* read_text leaves the call.
load_state(f) ==
    IF ~f.exists THEN PyDict(EmptyDict)
    ELSE LET text == read_text(f)
         IN  IF text.t = "raise" THEN text
             ELSE LET r == json_loads(text.v)
                  IN  IF r.ok /\ r.val.t = "dict" THEN r.val ELSE PyDict(EmptyDict)

\* save_state: the file written by path.write_text(json.dumps(state, indent=2))
save_state(state) == [exists |-> TRUE, text |-> json_dumps(state)]

\* path.write_text opens state.json for writing, which empties it, and then writes
\* the text; a write that fails (disk full, size limit, the process killed) leaves
\* the first k tokens of the new text.
write_text_failed(state, k) == [exists |-> TRUE, text |-> Take(json_dumps(state), k)]

\* state.get(repo_url)
state_get(state, repo_url) ==
    IF repo_url \in DOMAIN state.v THEN state.v[repo_url] ELSE PyNone

\* val.get(key) on a dict value
dict_get(val, key) == IF key \in DOMAIN val.v THEN val.v[key] ELSE PyNone

\* Variant: the commit id is read from records only.
get_last_seen_sha_records_only(state, repo_url) ==
    LET val == state_get(state, repo_url)
    IN  IF val.t = "dict" THEN dict_get(val, "commit_sha") ELSE PyNone

get_last_seen_sha(state, repo_url) ==
    LET val == state_get(state, repo_url)
    IN  IF val = PyNone THEN PyNone
        ELSE IF val.t = "str" THEN val
        ELSE dict_get(val, "commit_sha")

\* Variant: a bare-string entry is read as a one-element list of tag names.
get_last_seen_tag_names_legacy(state, repo_url) ==
    LET val == state_get(state, repo_url)
    IN  IF val.t = "str" THEN {val.v}
        ELSE IF val.t # "dict" THEN {}
        ELSE LET names == dict_get(val, "tag_names")
             IN  IF names.t # "list" THEN {}
                 ELSE {names.v[i].v : i \in 1..Len(names.v)}

\* the set of names, as a set of strings
get_last_seen_tag_names(state, repo_url) ==
    LET val == state_get(state, repo_url)
    IN  IF val.t # "dict" THEN {}
        ELSE LET names == dict_get(val, "tag_names")
             IN  IF names.t # "list" THEN {}
                 ELSE {names.v[i].v : i \in {j \in 1..Len(names.v) : names.v[j].t = "str"}}

get_last_seen_newest_tag_date(state, repo_url) ==
    LET val == state_get(state, repo_url)
    IN  IF val.t # "dict" THEN PyNone
        ELSE LET date_val == dict_get(val, "newest_tag_date")
             IN  IF date_val.t = "str" /\ Truthy(date_val) THEN date_val ELSE PyNone

----------------------------------------------------------------------------
(* cli.py main and mcp/server.py get_git_updates: the run over the          *)
(* configured repositories.                                                *)

\* the parameters fetch_repo_summary accepts
FetchParams == {"config", "cache_dir", "last_seen_sha", "last_seen_newest_tag_date"}

\* the fields of a RepoSummary
RepoSummaryFields ==
    {"url", "name", "branch", "commits", "tags", "error", "since_last_run",
     "tags_since_last_run", "head_sha", "newest_tag_date"}

\* last_tag_names or None
or_None(names) == IF names = {} THEN PyNone ELSE [t |-> "set", v |-> names]

\* The keyword arguments both entry points pass to fetch_repo_summary.
call_kwargs(state, repo_config, changes_only) ==
    [last_seen_sha |->
        IF changes_only THEN get_last_seen_sha(state, repo_config.url) ELSE PyNone,
     last_seen_tag_names |->
        IF changes_only THEN or_None(get_last_seen_tag_names(state, repo_config.url))
        ELSE PyNone]

\* What the run holds when the loop over config.repos ends: the state mapping, the
\* summaries, the exception that ended it ("None" when it ran to the end) and the
\* urls whose fetch ended with an error.
LoopEnd(state, summaries, exc, failed) ==
    [state |-> state, summaries |-> summaries, exc |-> exc, failed |-> failed]

\* Variant: a failed fetch is caught, the repository's entry is dropped from the state
\* and the loop goes on.
RECURSIVE run_loop_drop(_, _, _, _, _, _)
run_loop_drop(repos, i, state, summaries, failed, changes_only) ==
    IF i > Len(repos) THEN LoopEnd(state, summaries, "None", failed)
    ELSE LET url == repos[i].url
             dropped == PyDict([k \in DOMAIN state.v \ {url} |-> state.v[k]])
         IN  run_loop_drop(repos, i + 1, dropped, summaries, failed \cup {url},
                           changes_only)

\* The loop body for config.repos[i] and the iterations after it.  A keyword that
\* fetch_repo_summary does not accept raises TypeError at the call; reading a field
\* that RepoSummary does not have raises AttributeError.  Neither is caught.
RECURSIVE run_loop(_, _, _, _, _, _)
run_loop(repos, i, state, summaries, failed, changes_only) ==
    IF i > Len(repos) THEN LoopEnd(state, summaries, "None", failed)
    ELSE LET repo_config == repos[i]
             kwargs == call_kwargs(state, repo_config, changes_only)
         IN  IF ~(DOMAIN kwargs \subseteq FetchParams)
             THEN LoopEnd(state, summaries, "TypeError", failed \cup {repo_config.url})
             ELSE LET summary == fetch_repo_summary(repo_config, kwargs.last_seen_sha,
                                                    PyNone)
                      sums == Append(summaries, summary)
                  IN  IF changes_only /\ ~Truthy(summary.error)
                      THEN IF "recent_tag_names" \notin RepoSummaryFields
                           THEN LoopEnd(state, sums, "AttributeError", failed)
                           ELSE run_loop(repos, i + 1, state, sums, failed, changes_only)
                      ELSE run_loop(repos, i + 1, state, sums,
                                    IF Truthy(summary.error)
                                    THEN failed \cup {repo_config.url} ELSE failed,
                                    changes_only)

\* Variant: the run rewrites every bare-string entry as a record before it stops.
run_updates_upgrade(repos, changes_only, f) ==
    LET state == load_state(f)
        upgraded == PyDict([k \in DOMAIN state.v |->
                               IF state.v[k].t = "str"
                               THEN PyDict([commit_sha |-> state.v[k]]) ELSE state.v[k]])
        end == run_loop(repos, 1, state, <<>>, {}, changes_only)
    IN  [end |-> end, file |-> IF changes_only THEN save_state(upgraded) ELSE f]

\* load_state, the loop, save_state: lines 155-181 of cli.py, 78-103 of server.py.
\* An exception leaves the function before save_state.
run_updates(repos, changes_only, f) ==
    LET state == IF changes_only THEN load_state(f) ELSE PyDict(EmptyDict)
        end == IF state.t = "raise" THEN LoopEnd(state, <<>>, state.exc, {})
               ELSE run_loop(repos, 1, state, <<>>, {}, changes_only)
    IN  [end |-> end,
         file |-> IF end.exc = "None" /\ changes_only THEN save_state(end.state) ELSE f]

\* RepoConfig(url=...): branch HEAD, max_commits 10, include_tags True
MaxCommitsDefault == 10

RepoConfig(url) == [url |-> url, max_commits |-> MaxCommitsDefault, include_tags |-> TRUE]

----------------------------------------------------------------------------
(* Inputs drawn for calls.                                                 *)

RepoConfigs == [url : Urls, max_commits : 0..MaxN, include_tags : BOOLEAN]

\* no call has returned yet
Idle == [op |-> "none"]

\* The repository the direct calls are made on.
FetchUrl == "u1"

\* last_seen_sha: None, "", a full id, an abbreviated id, an id not in any history
PrevShas ==
    {PyNone, PyStr(<<>>), PyStr(<<"a">>), PyStr(<<"b">>), PyStr(<<"b", "b", "b">>)}
        \cup {PyStr(s) : s \in Sha}

\* last_seen_newest_tag_date: None, "", a string that is no date, a date
PrevDates ==
    {PyNone, PyStr(<<>>), PyStr(<<"x">>)} \cup {PyStr(strftime(n)) : n \in 1..MaxTs}

\* histories: distinct commit ids, newest first
Histories ==
    {h \in UNION {[1..n -> Sha] : n \in 0..MaxCommits} :
        \A i, j \in DOMAIN h : i # j => h[i] # h[j]}

\* tag listings: the i-th tag of the adapter's listing is named TagNames[i]
Listings ==
    UNION {{[i \in 1..n |-> [name |-> TagNames[i], ts |-> f[i]]] :
               f \in [1..n -> {NoTs} \cup (1..MaxTs)]} : n \in 0..MaxTags}

----------------------------------------------------------------------------
(* Direct calls of the fetcher.  The fetcher keeps nothing between calls,   *)
(* so one call is applied to each repository drawn.                        *)

FetchRepoSummary ==
    /\ last.op = "none"
    /\ \E config \in RepoConfigs, sha \in PrevShas, date \in PrevDates :
           /\ config.url = FetchUrl
           /\ last' = [op |-> "fetch", config |-> config, last_seen_sha |-> sha,
                       last_seen_newest_tag_date |-> date,
                       summary |-> fetch_repo_summary(config, sha, date)]
           /\ UNCHANGED <<hist, tags, remote_ok, file>>

TagsToInfos ==
    /\ last.op = "none"
    /\ \E url \in {FetchUrl}, max_tags \in 1..MaxN, date \in PrevDates :
           /\ last' = [op |-> "tags", url |-> url, max_tags |-> max_tags,
                       last_seen_newest_tag_date |-> date,
                       ret |-> tags_to_infos(tags[url], max_tags, date)]
           /\ UNCHANGED <<hist, tags, remote_ok, file>>

\* _commits_since_sha(repo, target, last_seen_sha, max_count), which the fetcher
\* calls with a last_seen_sha that is not empty
CommitsSinceSha ==
    /\ last.op = "none"
    /\ \E sha \in {p \in PrevShas : Truthy(p)}, max_count \in 0..MaxN :
           /\ last' = [op |-> "since", url |-> FetchUrl, last_seen_sha |-> sha.v,
                       max_count |-> max_count,
                       ret |-> commits_since_sha(hist[FetchUrl], sha.v, max_count),
                       scanned |-> commits_scanned(
                                       iter_commits(hist[FetchUrl], max_count * 2), 1, 0,
                                       sha.v, max_count)]
           /\ UNCHANGED <<hist, tags, remote_ok, file>>

\* The fetcher over every small repository: u1 is drawn, u2 is an empty repository.
InitFetch ==
    /\ hist \in {[u \in Urls |-> IF u = "u1" THEN h ELSE <<>>] : h \in Histories}
    /\ tags \in {[u \in Urls |-> IF u = "u1" THEN l ELSE <<>>] : l \in Listings}
    /\ remote_ok \in {[u \in Urls |-> IF u = "u1" THEN b ELSE TRUE] : b \in BOOLEAN}
    /\ file = NoFile
    /\ last = Idle

NextFetch == FetchRepoSummary \/ TagsToInfos \/ CommitsSinceSha

SpecFetch == InitFetch /\ [][NextFetch]_vars

----------------------------------------------------------------------------
(* The program in its environment: remotes gain commits and tags and go up  *)
(* and down; state.json is written by save_state; the entry points run.    *)

MaxEvents == 2      \* commits and tags the remotes gain in a behaviour

\* config.repos: none, one repository, two repositories
Configs == {<<>>, <<RepoConfig("u1")>>, <<RepoConfig("u1"), RepoConfig("u2")>>}

StoredSha == <<"a", "a", "b">>

\* the shapes of a state entry: a bare commit id, or a record
Entries ==
    {PyStr(StoredSha),
     PyDict([commit_sha |-> PyStr(StoredSha)]),
     PyDict([commit_sha |-> PyStr(StoredSha),
             tag_names |-> PyList(<<PyStr(<<"v1">>), PyStr(<<"v2">>)>>)]),
     PyDict([commit_sha |-> PyStr(StoredSha), tag_names |-> PyList(<<>>)]),
     PyDict([commit_sha |-> PyStr(StoredSha), newest_tag_date |-> PyStr(strftime(1))]),
     PyDict([commit_sha |-> PyStr(StoredSha),
             tag_names |-> PyList(<<PyStr(<<"v1">>)>>),
             newest_tag_date |-> PyStr(strftime(1))])}

StateMappings == {PyDict(m) : m \in UNION {[D -> Entries] : D \in SUBSET Urls}}

\* entries an earlier run may have left: a legacy string, a full record
SeedEntries ==
    {PyStr(StoredSha),
     PyDict([commit_sha |-> PyStr(StoredSha),
             tag_names |-> PyList(<<PyStr(<<"v1">>)>>),
             newest_tag_date |-> PyStr(strftime(1))])}

\* state files an earlier run may have left: one repository legacy and the other a
\* record, or a legacy entry for u1 alone
SeedStates ==
    {PyDict(m) : m \in {f \in [Urls -> SeedEntries] : f["u1"] # f["u2"]}
                          \cup [{"u1"} -> {PyStr(StoredSha)}]}

EnvSize == Len(hist["u1"]) + Len(hist["u2"]) + Len(tags["u1"]) + Len(tags["u2"])

\* a commit lands on the target ref of a remote
Push ==
    \E u \in Urls, sha \in Sha :
        /\ EnvSize < MaxEvents /\ Len(hist[u]) < MaxCommits
        /\ \A i \in 1..Len(hist[u]) : hist[u][i] # sha
        /\ hist' = [hist EXCEPT ![u] = <<sha>> \o @]
        /\ last' = Idle
        /\ UNCHANGED <<tags, remote_ok, file>>

\* a tag is created in a remote
AddTag ==
    \E u \in Urls, ts \in {NoTs} \cup (1..MaxTs) :
        /\ EnvSize < MaxEvents /\ Len(tags[u]) < MaxTags
        /\ tags' = [tags EXCEPT ![u] = Append(@, [name |-> TagNames[Len(@) + 1], ts |-> ts])]
        /\ last' = Idle
        /\ UNCHANGED <<hist, remote_ok, file>>

\* a remote becomes unreachable, or reachable again
SetRemote ==
    \E u \in Urls :
        /\ remote_ok' = [remote_ok EXCEPT ![u] = ~@]
        /\ last' = Idle
        /\ UNCHANGED <<hist, tags, file>>

\* save_state(cache_dir, state), for a state of S
SaveState(S) ==
    \E state \in S :
        /\ file' = save_state(state)
        /\ last' = [op |-> "save", state |-> state]
        /\ UNCHANGED <<hist, tags, remote_ok>>

\* save_state(cache_dir, state) whose write fails after k tokens
SaveStateFails ==
    /\ last.op = "none"
    /\ \E state \in StateMappings :
           \E k \in 0..(Len(json_dumps(state)) - 1) :
               /\ file' = write_text_failed(state, k)
               /\ last' = [op |-> "save_failed", state |-> state, before |-> file]
               /\ UNCHANGED <<hist, tags, remote_ok>>

\* state.json as something other than save_state left it: unparseable text, a JSON
\* value that is no object, bytes that are not UTF-8
FileContents ==
    {<<>>, <<LBrace>>, <<StrTok(<<"x">>), StrTok(<<"y">>)>>, <<LBrace, KeyTok("u1"), RBrace>>,
     <<Null>>, <<StrTok(<<"x">>)>>, <<LBracket, StrTok(StoredSha), RBracket>>,
     <<BadByte>>, <<LBrace, BadByte, RBrace>>,
     <<LBrace, KeyTok("u1"), Colon, StrTok(StoredSha), RBrace>>}

\* state.json is replaced from outside the program
WriteFile ==
    \E text \in FileContents :
        /\ file' = [exists |-> TRUE, text |-> text]
        /\ last' = [op |-> "write"]
        /\ UNCHANGED <<hist, tags, remote_ok>>

\* load_state(cache_dir); saved is the mapping the call before it saved, if any
LoadState ==
    /\ last' = [op |-> "load", ret |-> load_state(file),
                saved |-> IF last.op = "save" THEN last.state ELSE PyNone]
    /\ UNCHANGED <<hist, tags, remote_ok, file>>

\* the status the process ends with: main's return value, or 1 when an exception
\* leaves main
exit_status(exc) == IF exc = "None" THEN 0 ELSE 1

RunRecord(op, repos, changes_only, r) ==
    [op |-> op, repos |-> repos, changes_only |-> changes_only, before |-> file,
     exc |-> r.end.exc, failed |-> r.end.failed, summaries |-> r.end.summaries,
     exit |-> exit_status(r.end.exc)]

\* git-digest [--changes-only], after the configuration is loaded
Main ==
    \E repos \in Configs, changes_only \in BOOLEAN :
        LET r == run_updates(repos, changes_only, file)
        IN  /\ file' = r.file
            /\ last' = RunRecord("main", repos, changes_only, r)
            /\ UNCHANGED <<hist, tags, remote_ok>>

\* the MCP tool get_git_updates, after the configuration is loaded
GetGitUpdates ==
    \E repos \in Configs, changes_only \in BOOLEAN :
        LET r == run_updates(repos, changes_only, file)
        IN  /\ file' = r.file
            /\ last' = RunRecord("mcp", repos, changes_only, r)
            /\ UNCHANGED <<hist, tags, remote_ok>>

Init ==
    /\ hist = [u \in Urls |-> <<>>]
    /\ tags = [u \in Urls |-> <<>>]
    /\ remote_ok = [u \in Urls |-> TRUE]
    /\ file = NoFile
    /\ last = Idle

Next == Push \/ AddTag \/ SetRemote \/ SaveState(SeedStates) \/ Main \/ GetGitUpdates

Spec == Init /\ [][Next]_vars

\* The state store alone: every mapping is saved and loaded back.
NextState == SaveState(StateMappings) \/ WriteFile \/ LoadState

SpecState == Init /\ [][NextState]_vars

\* One save attempt over each state file an earlier run may have left.
SaveStateOnce ==
    /\ last.op = "none"
    /\ \E state \in StateMappings :
          /\ file' = save_state(state)
          /\ last' = [op |-> "save_done", state |-> state, before |-> file]
          /\ UNCHANGED <<hist, tags, remote_ok>>

InitSave ==
    /\ hist = [u \in Urls |-> <<>>]
    /\ tags = [u \in Urls |-> <<>>]
    /\ remote_ok = [u \in Urls |-> TRUE]
    /\ file \in {NoFile} \cup {save_state(st) : st \in SeedStates}
    /\ last = Idle

NextSave == SaveStateOnce \/ SaveStateFails

SpecSave == InitSave /\ [][NextSave]_vars

----------------------------------------------------------------------------
(* Properties of the fetcher.                                              *)

FetchOk == last.op = "fetch" /\ last.summary.error = PyNone

Matches(id, p) == id = p \/ startswith(id, p)

\* The commits ahead of the first one that is, or is abbreviated by, p.
PrefixBefore(h, p) ==
    SubSeq(h, 1, Cardinality({i \in 1..Len(h) : \A j \in 1..i : ~Matches(h[j], p)}))

Infos(commits) == [i \in 1..Len(commits) |-> CommitInfo(commits[i])]

\* C3: with a previous id P, the commits returned are the longest prefix of the
\* newest-first history holding no commit whose id is P or starts with P, cut to
\* max_commits; when there are any, the new last-seen id is the newest commit's.
C3_CommitsSincePrevious ==
    (FetchOk /\ Truthy(last.last_seen_sha)) =>
        LET h == hist[last.config.url]
            expected == Take(PrefixBefore(h, last.last_seen_sha.v), last.config.max_commits)
        IN  /\ last.summary.commits = Infos(expected)
            /\ expected # <<>> => last.summary.head_sha = PyStr(h[1])

\* A previous id that abbreviates the second commit: only the first is returned.
C3_Witness ==
    /\ FetchOk /\ Truthy(last.last_seen_sha)
    /\ LET h == hist[last.config.url]
       IN  /\ Len(h) >= 2
           /\ Len(last.last_seen_sha.v) < Len(h[2])
           /\ startswith(h[2], last.last_seen_sha.v)
           /\ last.summary.commits = <<CommitInfo(h[1])>>
           /\ last.summary.head_sha = PyStr(h[1])

\* C4: with no previous id the commits returned are the first max_commits of the
\* history and the new last-seen id is the newest commit's id, none when the
\* repository has no commits.
C4_FirstRunCommits ==
    (FetchOk /\ ~Truthy(last.last_seen_sha)) =>
        LET h == hist[last.config.url]
        IN  /\ last.summary.commits = Infos(Take(h, last.config.max_commits))
            /\ last.summary.head_sha = IF h # <<>> THEN PyStr(h[1]) ELSE PyNone

\* C5: with a previous id and no new commit, the new last-seen id is the id of the
\* head commit of the target ref; it is the previous id only when the ref has no
\* commits.
C5_HeadWhenNothingNew ==
    (FetchOk /\ Truthy(last.last_seen_sha) /\ last.summary.commits = <<>>) =>
        LET h == hist[last.config.url]
        IN  last.summary.head_sha = IF h # <<>> THEN PyStr(h[1]) ELSE last.last_seen_sha

\* Nothing new, and the head reported is not the (abbreviated) previous id.
C5_Witness ==
    /\ FetchOk /\ Truthy(last.last_seen_sha) /\ last.summary.commits = <<>>
    /\ hist[last.config.url] # <<>>
    /\ last.config.max_commits > 0
    /\ last.summary.head_sha = PyStr(hist[last.config.url][1])
    /\ last.summary.head_sha # last.last_seen_sha

AllResolved(listing) == \A i \in 1..Len(listing) : listing[i].ts # NoTs

MaxTsOf(listing) ==
    CHOOSE m \in {listing[i].ts : i \in 1..Len(listing)} :
        \A i \in 1..Len(listing) : listing[i].ts <= m

\* r is the newest up-to-n tags of the listing dated after t, newest first.
NewestTags(r, listing, n, t) ==
    LET new == {i \in 1..Len(listing) : listing[i].ts > t}
    IN  /\ Len(r) = Min(n, Cardinality(new))
        /\ \E pick \in [1..Len(r) -> new] :
              /\ \A j, k \in 1..Len(r) : j # k => pick[j] # pick[k]
              /\ \A j \in 1..Len(r) : r[j] = TagInfo(listing[pick[j]])
              /\ \A j, k \in 1..Len(r) : j < k => listing[pick[j]].ts >= listing[pick[k]].ts
              /\ \A i \in new : (\A j \in 1..Len(r) : pick[j] # i) =>
                    \A j \in 1..Len(r) : listing[i].ts <= listing[pick[j]].ts

NewestDate(listing) ==
    IF listing = <<>> THEN PyNone ELSE PyStr(strftime(MaxTsOf(listing)))

TagsCall == last.op = "tags" /\ AllResolved(tags[last.url])

IsDate(d) == d.t = "str" /\ parse_utc_iso(d.v) # ParseError

\* C6: with a cutoff T the tags returned are the newest up-to-N tags dated strictly
\* after T, newest first, and the new cutoff is the newest date of the whole listing.
C6_TagsAfterCutoff ==
    (TagsCall /\ IsDate(last.last_seen_newest_tag_date)) =>
        /\ NewestTags(last.ret.result, tags[last.url], last.max_tags,
                      parse_utc_iso(last.last_seen_newest_tag_date.v))
        /\ last.ret.newest = NewestDate(tags[last.url])

\* One tag after the cutoff and one at it: only the first is returned.
C6_Witness ==
    /\ TagsCall /\ IsDate(last.last_seen_newest_tag_date)
    /\ LET l == tags[last.url]
           t == parse_utc_iso(last.last_seen_newest_tag_date.v)
       IN  /\ Len(l) = 2 /\ l[1].ts = t /\ l[2].ts > t
           /\ last.ret.result = <<TagInfo(l[2])>>
           /\ last.ret.newest = PyStr(strftime(l[2].ts))

\* C7: with no cutoff the tags returned are the newest N, newest first, and the
\* newest date is the new cutoff; an empty listing gives no tags and no cutoff.
C7_TagsFirstRun ==
    (TagsCall /\ last.last_seen_newest_tag_date = PyNone) =>
        /\ NewestTags(last.ret.result, tags[last.url], last.max_tags, NoTs)
        /\ last.ret.newest = NewestDate(tags[last.url])
        /\ tags[last.url] = <<>> => last.ret = [result |-> <<>>, newest |-> PyNone]

\* Two tags listed oldest first, one asked for: the newer one is returned.
C7_Witness ==
    /\ TagsCall /\ last.last_seen_newest_tag_date = PyNone
    /\ LET l == tags[last.url]
       IN  /\ Len(l) = 2 /\ l[1].ts < l[2].ts /\ last.max_tags = 1
           /\ last.ret.result = <<TagInfo(l[2])>>
           /\ last.ret.newest = PyStr(strftime(l[2].ts))

----------------------------------------------------------------------------
(* Properties of the runs and of the state store.                          *)

IsRun == last.op \in {"main", "mcp"}

Absent == [t |-> "absent"]

\* the entry state.json holds for a url
Entry(f, url) ==
    LET st == load_state(f) IN IF url \in DOMAIN st.v THEN st.v[url] ELSE Absent

ConfiguredUrls == {last.repos[i].url : i \in 1..Len(last.repos)}

\* C1: after an incremental run, the persisted entry of every configured repository
\* whose fetch ended with an error is the entry it had before the run, or is still
\* absent.
C1_ErrorKeepsState ==
    (IsRun /\ last.changes_only) =>
        \A u \in last.failed : Entry(file, u) = Entry(last.before, u)

\* An incremental run in which the fetch of an unreachable repository with a stored
\* record failed.
C1_Witness ==
    /\ IsRun /\ last.changes_only
    /\ \E u \in last.failed :
          /\ ~remote_ok[u]
          /\ Entry(last.before, u).t = "dict"
          /\ Entry(file, u) = Entry(last.before, u)

\* C2: after an incremental run the stored last-commit id of every reachable
\* configured repository is the newest commit id of that repository.
C2_StoredIdIsNewest ==
    (IsRun /\ last.changes_only) =>
        \A u \in ConfiguredUrls :
            (remote_ok[u] /\ hist[u] # <<>>) =>
                get_last_seen_sha(load_state(file), u) = PyStr(hist[u][1])

\* the tag cutoff state.json holds for a url, as a time (ParseError when none)
Cutoff(f, url) ==
    LET d == get_last_seen_newest_tag_date(load_state(f), url)
    IN  IF d = PyNone THEN ParseError ELSE parse_utc_iso(d.v)

\* C8: after an incremental run over a reachable repository with tags, the persisted
\* cutoff is the newest tag date, and it is not older than the cutoff persisted
\* before the run.
C8_CutoffAdvances ==
    (IsRun /\ last.changes_only) =>
        \A u \in ConfiguredUrls :
            (remote_ok[u] /\ tags[u] # <<>> /\ AllResolved(tags[u])) =>
                /\ Cutoff(file, u) = MaxTsOf(tags[u])
                /\ Cutoff(file, u) >= Cutoff(last.before, u)

C10_RoundTrip ==
    (last.op = "load" /\ last.saved # PyNone) => last.ret = last.saved

\* A mapping with a legacy entry and a record with tag names and a tag date came back.
C10_Witness ==
    /\ last.op = "load" /\ last.saved # PyNone
    /\ DOMAIN last.saved.v = Urls
    /\ last.saved.v["u1"].t = "str"
    /\ last.saved.v["u2"].t = "dict"
    /\ DOMAIN last.saved.v["u2"].v = {"commit_sha", "tag_names", "newest_tag_date"}
    /\ last.ret = last.saved

----------------------------------------------------------------------------
(* Properties of the state store.                                          *)

\* the file holds one whole JSON value
Parseable(f) == f.exists /\ read_text(f).t = "text" /\ json_loads(f.text).ok

\* the file holds one JSON object
HoldsObject(f) == Parseable(f) /\ json_loads(f.text).val.t = "dict"

\* C11: load_state never raises; it returns the empty mapping when state.json is
\* missing and for every content that is not a JSON object.
C11_LoadNeverRaises ==
    last.op = "load" =>
        /\ last.ret.t = "dict"
        /\ ~HoldsObject(file) => last.ret = PyDict(EmptyDict)

\* C12: after a save attempt, completed or failed part-way, state.json is a
\* parseable whole: the content before the attempt or the complete new content.
C12_SaveLeavesWholeFile ==
    /\ last.op = "save_done" => file = save_state(last.state)
    /\ last.op = "save_failed" =>
          /\ Parseable(file)
          /\ file = last.before \/ file = save_state(last.state)

----------------------------------------------------------------------------
(* Further properties of the runs.                                         *)

Legacy(f, u) == Entry(f, u).t = "str"

\* C13: after an incremental run, every bare-string entry whose repository was not
\* configured, or whose fetch failed, is still the same bare string, and reads back
\* with that commit id and an empty tag set.
C13_LegacyKept ==
    (IsRun /\ last.changes_only) =>
        \A u \in Urls :
            (Legacy(last.before, u) /\ (u \notin ConfiguredUrls \/ u \in last.failed)) =>
                /\ Entry(file, u) = Entry(last.before, u)
                /\ get_last_seen_sha(load_state(file), u) = Entry(last.before, u)
                /\ get_last_seen_tag_names(load_state(file), u) = {}

\* An incremental run that reached save_state over a file with a bare-string entry
\* of a repository that is not configured.
C13_Witness ==
    /\ IsRun /\ last.changes_only /\ last.exc = "None"
    /\ \E u \in Urls \ ConfiguredUrls :
          /\ Legacy(last.before, u)
          /\ Entry(file, u) = PyStr(StoredSha)
          /\ get_last_seen_tag_names(load_state(file), u) = {}

\* C14: when the remote of a configured repository is unreachable, the run still
\* produces one summary per configured repository: the unreachable ones carry an
\* error string, the others are what fetch_repo_summary returns for them.
C14_ErrorIsolation ==
    (IsRun /\ \E u \in ConfiguredUrls : ~remote_ok[u]) =>
        /\ last.exc = "None"
        /\ Len(last.summaries) = Len(last.repos)
        /\ \A i \in 1..Len(last.repos) :
              LET u == last.repos[i].url
              IN  IF remote_ok[u]
                  THEN /\ last.summaries[i].error = PyNone
                       /\ last.summaries[i].commits
                            = fetch_repo_summary(last.repos[i],
                                  IF last.changes_only
                                  THEN get_last_seen_sha(load_state(last.before), u)
                                  ELSE PyNone, PyNone).commits
                  ELSE last.summaries[i].error # PyNone

\* C15: git-digest run with a configuration that loads ends with exit status 0,
\* whether or not repositories errored.
C15_ExitStatusZero == last.op = "main" => last.exit = 0

----------------------------------------------------------------------------
(* summary.py and ollama_client.py: the report, and the digest asked of the *)
(* summarization service.  A report is the sequence of its lines.          *)

RuleMax == 60

\* the lines both formats print under a repository's header
RECURSIVE item_lines(_, _, _)
item_lines(kind, items, i) ==
    IF i > Len(items) THEN <<>>
    ELSE <<<<kind, items[i]>>>> \o item_lines(kind, items, i + 1)

TagsShown == 5

body_lines(s) ==
    IF Truthy(s.error) THEN <<<<"Error", s.error.v>>, <<"">>>>
    ELSE (IF s.commits # <<>>
          THEN <<<<IF s.since_last_run THEN "New commits since last run:"
                   ELSE "Recent commits:">>>> \o item_lines("commit", s.commits, 1)
          ELSE IF s.since_last_run THEN <<<<"No new commits since last run.">>>>
          ELSE <<>>)
         \o (IF s.tags_since_last_run
             THEN IF s.tags # <<>>
                  THEN <<<<"New tags/releases since last run:">>>>
                       \o item_lines("tag", Take(s.tags, TagsShown), 1)
                  ELSE <<<<"No new tags since last run.">>>>
             ELSE IF s.tags # <<>>
                  THEN <<<<"Recent tags/releases:">>>>
                       \o item_lines("tag", Take(s.tags, TagsShown), 1)
             ELSE <<>>)
         \o <<<<"">>>>

\* _raw_context
RECURSIVE raw_context(_, _)
raw_context(summaries, i) ==
    IF i > Len(summaries) THEN <<>>
    ELSE <<<<"##", summaries[i].url, "(url)">>, <<"Branch">>>>
         \o body_lines(summaries[i]) \o raw_context(summaries, i + 1)

title_lines(title) ==
    IF Truthy(title) THEN <<<<title.v>>, <<"=", Min(RuleMax, Len(title.v))>>, <<"">>>>
    ELSE <<>>

RECURSIVE report_lines(_, _)
report_lines(summaries, i) ==
    IF i > Len(summaries) THEN <<>>
    ELSE <<<<"##", summaries[i].url>>, <<"URL", summaries[i].url>>, <<"Branch">>>>
         \o body_lines(summaries[i]) \o report_lines(summaries, i + 1)

\* format_report, printed when the clock reads now
format_report(summaries, title, now) ==
    PyList(title_lines(title) \o <<<<"Generated", now>>, <<"">>>> \o report_lines(summaries, 1))

\* requests.post(.../api/generate): no connection, no answer in time, an HTTP status,
\* a body that is no JSON, or a JSON object whose "response" is None (missing) or text
PostOutcomes ==
    {[kind |-> k, code |-> 0, response |-> PyNone] : k \in {"ConnectionError", "Timeout"}}
        \cup {[kind |-> "HTTPError", code |-> c, response |-> PyNone] : c \in {404, 500}}
        \cup {[kind |-> "ValueError", code |-> 200, response |-> PyNone]}
        \cup {[kind |-> "ok", code |-> 200, response |-> r] :
                 r \in {PyNone, PyStr(<<>>), PyStr(<<" ">>), PyStr(<<" ", "d">>), PyStr(<<"d">>)}}

\* an exception of requests: e.response.status_code is code (0 when e has no response)
RaisedBy(post) == [t |-> "raise", exc |-> post.kind, status_code |-> post.code]

\* generate: the text of the "response" field, stripped; raises what requests raises
generate(post) ==
    IF post.kind # "ok" THEN RaisedBy(post)
    ELSE PyStr(strip(IF Truthy(post.response) THEN post.response.v ELSE <<>>))

\* requests.get(.../api/tags): no connection, or the "name" of each listed model
GetOutcomes ==
    {[kind |-> "ConnectionError", names |-> <<>>]}
        \cup {[kind |-> "ok", names |-> n] :
                 n \in {<<>>, <<PyStr(<<"m">>)>>, <<PyStr(<<>>), PyStr(<<"m">>)>>, <<PyInt(5)>>}}

RECURSIVE truthy_names(_, _)
truthy_names(names, i) ==
    IF i > Len(names) THEN <<>>
    ELSE (IF Truthy(names[i]) THEN <<names[i]>> ELSE <<>>) \o truthy_names(names, i + 1)

\* list_models: the names that are truthy; [] on any error
list_models(get) == IF get.kind # "ok" THEN <<>> ELSE truthy_names(get.names, 1)

\* ", ".join(available) raises TypeError when an item is no str
join_raises(available) == \E i \in 1..Len(available) : available[i].t # "str"

\* lines 139-151: the plain report when the digest is empty, else the digest
ai_report_or_plain(ai_text, summaries, title, now) ==
    IF ai_text = <<>> THEN format_report(summaries, title, now.second)
    ELSE PyList(title_lines(title)
                \o <<<<"Generated", now.first>>, <<"">>, <<strip(ai_text)>>, <<"">>>>)

\* format_report_with_ai; now.first is the clock at line 114, now.second the clock
\* when format_report is called
format_report_with_ai(summaries, title, svc, now) ==
    IF raw_context(summaries, 1) = <<>> THEN format_report(summaries, title, now.second)
    ELSE LET ai == generate(svc.post)
         IN  IF ai.t = "raise"
             THEN LET available == IF ai.status_code = 404 THEN list_models(svc.get)
                                   ELSE <<>>
                  IN  IF available # <<>> /\ join_raises(available)
                      THEN Raised("TypeError")
                      ELSE format_report(summaries, title, now.second)
             ELSE ai_report_or_plain(ai.v, summaries, title, now)

\* summaries as the fetcher builds them: none, an error, commits, nothing new, tags
SummaryLists ==
    LET s == RepoSummary("u1")
        c == CommitInfo(StoredSha)
        t == TagInfo([name |-> "v1", ts |-> 1])
    IN  {<<>>,
         <<[s EXCEPT !.error = PyStr(<<"E">>)]>>,
         <<[s EXCEPT !.commits = <<c>>, !.head_sha = PyStr(StoredSha)]>>,
         <<[s EXCEPT !.since_last_run = TRUE, !.tags_since_last_run = TRUE]>>,
         <<[s EXCEPT !.commits = <<c>>, !.tags = <<t>>]>>,
         <<[s EXCEPT !.error = PyStr(<<"E">>)], [RepoSummary("u2") EXCEPT !.tags = <<t>>]>>}

Titles == {PyNone, PyStr(<<>>), PyStr(<<"T">>)}

MaxClock == 2

Clocks == {[first |-> a, second |-> b] : a, b \in 1..MaxClock}

FormatReportWithAi ==
    /\ last.op = "none"
    /\ \E summaries \in SummaryLists, title \in Titles, post \in PostOutcomes,
          get \in GetOutcomes, now \in {c \in Clocks : c.first <= c.second} :
           /\ last' = [op |-> "report_ai", summaries |-> summaries, title |-> title,
                       post |-> post, get |-> get, now |-> now,
                       ret |-> format_report_with_ai(summaries, title,
                                                     [post |-> post, get |-> get], now)]
           /\ UNCHANGED <<hist, tags, remote_ok, file>>

NextReport == FormatReportWithAi

SpecReport == Init /\ [][NextReport]_vars

\* the service failed: no answer, an error status, no JSON, or no text in the answer
ServiceFailed(post) ==
    \/ post.kind # "ok"
    \/ ~Truthy(post.response)
    \/ strip(post.response.v) = <<>>

\* C16: whenever the summarization service fails, format_report_with_ai returns the
\* text format_report returns for the same summaries and title, and raises nothing.
C16_FallbackOnFailure ==
    (last.op = "report_ai" /\ ServiceFailed(last.post)) =>
        last.ret = format_report(last.summaries, last.title, last.now.second)

----------------------------------------------------------------------------
(* The accessors of state.py, called on every small state mapping.         *)

\* entries as load_state may return them: the shapes save_state is given, a record
\* with no commit_sha, an empty record, and null
AccessEntries ==
    Entries \cup {PyDict([tag_names |-> PyList(<<PyStr(<<"v1">>)>>)]),
                  PyDict(EmptyDict), PyNone}

AccessStates == {PyDict(m) : m \in UNION {[D -> AccessEntries] : D \in SUBSET Urls}}

GetLastSeenSha ==
    /\ last.op = "none"
    /\ \E state \in AccessStates, url \in Urls :
           /\ last' = [op |-> "get_sha", state |-> state, url |-> url,
                       ret |-> get_last_seen_sha(state, url)]
           /\ UNCHANGED <<hist, tags, remote_ok, file>>

GetLastSeenTagNames ==
    /\ last.op = "none"
    /\ \E state \in AccessStates, url \in Urls :
           /\ last' = [op |-> "get_names", state |-> state, url |-> url,
                       ret |-> get_last_seen_tag_names(state, url)]
           /\ UNCHANGED <<hist, tags, remote_ok, file>>

GetLastSeenNewestTagDate ==
    /\ last.op = "none"
    /\ \E state \in AccessStates, url \in Urls :
           /\ last' = [op |-> "get_date", state |-> state, url |-> url,
                       ret |-> get_last_seen_newest_tag_date(state, url)]
           /\ UNCHANGED <<hist, tags, remote_ok, file>>

NextAccess == GetLastSeenSha \/ GetLastSeenTagNames \/ GetLastSeenNewestTagDate

SpecAccess == Init /\ [][NextAccess]_vars

\* the entry the call was asked about, Absent when the mapping has none
Asked == IF last.url \in DOMAIN last.state.v THEN last.state.v[last.url] ELSE Absent

Field(e, key) == IF key \in DOMAIN e.v THEN e.v[key] ELSE PyNone

\* C17: get_last_seen_sha returns the string itself for a bare-string entry, the
\* commit_sha field for a record, and None for a url with no entry.
C17_ShaOfEitherShape ==
    last.op = "get_sha" =>
        last.ret = CASE Asked.t = "str" -> Asked
                     [] Asked.t = "dict" -> Field(Asked, "commit_sha")
                     [] OTHER -> PyNone

\* The id of a bare-string entry, asked for in a mapping that also holds a record.
C17_Witness ==
    /\ last.op = "get_sha" /\ Asked.t = "str" /\ last.ret = PyStr(StoredSha)
    /\ \E u \in DOMAIN last.state.v : last.state.v[u].t = "dict"

StrSet(l) == {l.v[i].v : i \in 1..Len(l.v)}

\* C18: for a bare-string or absent entry get_last_seen_tag_names returns the empty
\* set and get_last_seen_newest_tag_date returns None; for a record they return the
\* stored tag names as a set and the stored cutoff.
C18_TagStateOfEitherShape ==
    /\ last.op = "get_names" =>
          last.ret = IF Asked.t = "dict" /\ "tag_names" \in DOMAIN Asked.v
                     THEN StrSet(Asked.v.tag_names) ELSE {}
    /\ last.op = "get_date" =>
          last.ret = IF Asked.t = "dict" THEN Field(Asked, "newest_tag_date") ELSE PyNone

\* The tag names of a bare-string entry are the empty set.
C18_Witness ==
    /\ last.op = "get_names" /\ Asked = PyStr(StoredSha) /\ last.ret = {}
    /\ \E u \in DOMAIN last.state.v : get_last_seen_tag_names(last.state, u) # {}

----------------------------------------------------------------------------
(* config.py with_env_overrides and cli.py main, lines 145-153: the         *)
(* settings a run uses, from the file, the environment and the flags.      *)

Digits == <<"0", "1", "2", "3", "4", "5", "6", "7", "8", "9">>

\* str(n) for 0 <= n <= 9
str_of_int(n) == <<Digits[n + 1]>>

\* int(s): surrounding blanks are ignored; ValueError (ParseError) for text that is
\* no integer, the empty string included
int_of_str(s) ==
    LET t == strip(s)
    IN  IF Len(t) = 1 /\ \E d \in 1..Len(Digits) : Digits[d] = t[1]
        THEN (CHOOSE d \in 1..Len(Digits) : Digits[d] = t[1]) - 1
        ELSE ParseError

\* Path.expanduser and Path.resolve, with home /h and working directory /w
expanduser(path) == IF path # <<>> /\ path[1] = "~" THEN <<"/", "h">> \o Tail(path) ELSE path

resolve(path) == IF path # <<>> /\ path[1] = "/" THEN path ELSE <<"/", "w">> \o path

\* os.environ.get(name, default).strip() or default
env_or(env_val, default) ==
    LET v == strip(IF env_val = PyNone THEN default ELSE env_val.v)
    IN  IF v # <<>> THEN v ELSE default

\* Config.with_env_overrides: the configuration with the environment applied, or
\* the ValueError of int()
with_env_overrides(self, env) ==
    LET n == int_of_str(IF env.ollama_timeout = PyNone THEN str_of_int(self.ollama_timeout)
                        ELSE env.ollama_timeout.v)
    IN  IF n = ParseError THEN Raised("ValueError")
        ELSE [t |-> "Config",
              cache_dir |-> IF Truthy(env.cache_dir)
                            THEN resolve(expanduser(env.cache_dir.v)) ELSE self.cache_dir,
              default_title |-> env_or(env.default_title, self.default_title),
              ollama_model |-> env_or(env.ollama_model, self.ollama_model),
              ollama_url |-> env_or(env.ollama_url, self.ollama_url),
              ollama_timeout |-> IF n # 0 THEN n ELSE self.ollama_timeout]

\* args.x if args.x is not None else config.x
flag_or(flag, value) == IF flag # PyNone THEN flag.v ELSE value

\* main, lines 145-153: the settings the run goes on with
main_settings(config, env, args) ==
    LET c == with_env_overrides(config, env)
    IN  IF c.t = "raise" THEN c
        ELSE [t |-> "settings",
              cache_dir |-> IF args.cache_dir # PyNone
                            THEN resolve(expanduser(args.cache_dir.v)) ELSE c.cache_dir,
              title |-> flag_or(args.title, c.default_title),
              ollama_model |-> flag_or(args.ollama_model, c.ollama_model),
              ollama_url |-> flag_or(args.ollama_url, c.ollama_url),
              ollama_timeout |-> flag_or(args.ollama_timeout, c.ollama_timeout)]

\* the configuration Config.from_yaml built from the file
FileConfigs ==
    [cache_dir : {<<"/", "f">>}, default_title : {<<"F">>}, ollama_model : {<<"f">>},
     ollama_url : {<<"f">>}, ollama_timeout : {3}]

\* an environment variable: unset, empty, blank, or a padded value
EnvTexts == {PyNone, PyStr(<<>>), PyStr(<<" ">>), PyStr(<<" ", "E">>)}

Environments ==
    [cache_dir : {PyNone, PyStr(<<>>), PyStr(<<"e">>), PyStr(<<"~", "e">>)},
     default_title : EnvTexts, ollama_model : EnvTexts, ollama_url : EnvTexts,
     ollama_timeout : {PyNone, PyStr(<<>>), PyStr(<<"0">>), PyStr(<<" ", "5">>), PyStr(<<"x">>)}]

\* the flags: not given (None) or given
Flags ==
    [cache_dir : {PyNone, PyStr(<<"c">>)}, title : {PyNone, PyStr(<<>>)},
     ollama_model : {PyNone, PyStr(<<"C">>)}, ollama_url : {PyNone, PyStr(<<"C">>)},
     ollama_timeout : {PyNone, PyInt(7)}]

MainSettings ==
    /\ last.op = "none"
    /\ \E config \in FileConfigs, env \in Environments, args \in Flags :
           /\ last' = [op |-> "settings", config |-> config, env |-> env, args |-> args,
                       ret |-> main_settings(config, env, args)]
           /\ UNCHANGED <<hist, tags, remote_ok, file>>

NextConfig == MainSettings

SpecConfig == Init /\ [][NextConfig]_vars

\* the environment variable is set to a value that is not empty (blanks aside)
EnvSet(v) == v # PyNone /\ strip(v.v) # <<>>

\* flag, then environment (blanks aside), then file
Effective(flag, env_val, file_val) ==
    IF flag # PyNone THEN flag.v
    ELSE IF EnvSet(env_val) THEN strip(env_val.v)
    ELSE file_val

\* C19: each effective setting is the flag when given, else the environment
\* variable when set to a non-empty value, else the value of the config file; an
\* environment of empty and integer values never makes the settings fail.
C19_Precedence ==
    (last.op = "settings"
        /\ (EnvSet(last.env.ollama_timeout)
                => int_of_str(last.env.ollama_timeout.v) # ParseError)) =>
        /\ last.ret.t = "settings"
        /\ last.ret.title
             = Effective(last.args.title, last.env.default_title, last.config.default_title)
        /\ last.ret.ollama_model
             = Effective(last.args.ollama_model, last.env.ollama_model,
                         last.config.ollama_model)
        /\ last.ret.ollama_url
             = Effective(last.args.ollama_url, last.env.ollama_url, last.config.ollama_url)
        /\ last.ret.ollama_timeout
             = IF last.args.ollama_timeout # PyNone THEN last.args.ollama_timeout.v
               ELSE IF EnvSet(last.env.ollama_timeout)
                    THEN int_of_str(last.env.ollama_timeout.v)
               ELSE last.config.ollama_timeout
        /\ last.ret.cache_dir
             = IF last.args.cache_dir # PyNone
               THEN resolve(expanduser(last.args.cache_dir.v))
               ELSE IF Truthy(last.env.cache_dir)
                    THEN resolve(expanduser(last.env.cache_dir.v))
               ELSE last.config.cache_dir

----------------------------------------------------------------------------
(* Properties of the commit scan.                                          *)

\* C20: for every history and previous id, _commits_since_sha takes at most
\* 2 * max_count commits from the history and returns at most max_count; with a
\* previous id that matches no commit it returns the newest max_count commits.
C20_BoundedRescan ==
    last.op = "since" =>
        LET h == hist[last.url]
        IN  /\ last.scanned <= 2 * last.max_count
            /\ Len(last.ret) <= last.max_count
            /\ (\A i \in 1..Len(h) : ~Matches(h[i], last.last_seen_sha)) =>
                   last.ret = Take(h, last.max_count)

\* A previous id that is in no commit of a history longer than max_count: the
\* newest commit alone is returned.
C20_Witness ==
    /\ last.op = "since" /\ last.max_count = 1
    /\ LET h == hist[last.url]
       IN  /\ Len(h) = 2
           /\ \A i \in 1..Len(h) : ~Matches(h[i], last.last_seen_sha)
           /\ last.ret = <<h[1]>>
           /\ last.scanned = 1

----------------------------------------------------------------------------
(* Properties of tags without a commit time.                               *)

\* the listing without the tags whose commit time cannot be resolved
Resolvable(listing) == SelectSeq(listing, LAMBDA tag : tag.ts # NoTs)

\* C21: for every listing holding tags without a resolvable commit time,
\* _tags_to_infos returns what it returns for the listing without those tags, and
\* the summary of a fetch that reached the repository carries no error.
C21_UnresolvableTagsSkipped ==
    /\ (last.op = "tags" /\ ~AllResolved(tags[last.url])) =>
           last.ret = tags_to_infos(Resolvable(tags[last.url]), last.max_tags,
                                    last.last_seen_newest_tag_date)
    /\ (last.op = "fetch" /\ remote_ok[last.config.url]
            /\ ~AllResolved(tags[last.config.url])) =>
           last.summary.error = PyNone

----------------------------------------------------------------------------
(* Properties of the runs without --changes-only.                          *)

\* C22: a run without changes-only leaves state.json as it was (or absent), and
\* its summaries are, for every configured repository in turn, what
\* fetch_repo_summary returns with no previous commit id and no tag cutoff.
C22_FullRunIgnoresState ==
    (IsRun /\ ~last.changes_only) =>
        /\ file = last.before
        /\ Len(last.summaries) = Len(last.repos)
        /\ \A i \in 1..Len(last.repos) :
              i <= Len(last.summaries) =>
                  last.summaries[i] = fetch_repo_summary(last.repos[i], PyNone, PyNone)

----------------------------------------------------------------------------
(* Properties of the tag cutoff in fetch_repo_summary.                     *)

\* the call was given a previous commit id
HasPrevious == Truthy(last.last_seen_sha)

\* the call was given a tag cutoff
HasCutoff == last.last_seen_newest_tag_date # PyNone

HasLine(lines, text) == \E k \in 1..Len(lines) : lines[k] = <<text>>

====
